---- MODULE Spec2Model ----
(***************************************************************************)
(* Model of ghi-scraper: the list variant (src/ghi_scraper.py, REST page   *)
(* index pagination) and the graph variant (src/ghi_scraper/__main__.py,   *)
(* GraphQL cursor pagination).  One run of main() is a sequence of steps   *)
(* start -> fetching -> writing -> ... -> done | exited | aborted.         *)
(***************************************************************************)
EXTENDS Integers, Sequences, FiniteSets, TLC

VARIABLES
    variant,    \* "list" (ghi_scraper.py) or "graph" (ghi_scraper/__main__.py)
    token,      \* the GITHUB_TOKEN environment variable: "absent", "empty", "set"
    dirExists,  \* whether args.out_dir is an existing directory
    sinceArg,   \* args.since: NoArg or a string (sequence of characters)
    now,        \* datetime.now(), minutes since datetime.min
    remote,     \* the remote data the API serves
    flip,       \* whether the remote serialises record keys in reverse order in this run
    run,        \* number of the current invocation of the program
    pc,         \* position of the current invocation
    exit,       \* exit status of the invocation, NoExit while it runs
    msg,        \* the string named by the error message of sys.exit, NoMsg if none
    parsed,     \* result of the call of parse_since, NotCalled if it was not called
    since,      \* ScrapInfo.since: NoSince or an instant
    tok,        \* continuation token: page index (list) or cursor (graph)
    lst,        \* items of the response being processed (decoded records)
    pageInfo,   \* pageInfo of the response being processed (graph)
    idx,        \* index in lst of the next item of the for loop
    files,      \* out_dir's files: path <<sub_dir, number>> -> text
    dirs,       \* sub-directories of out_dir that exist
    reqs,       \* requests issued by this invocation, in order
    resps,      \* per answered request: number of items and pageInfo
    received,   \* all records received by this invocation, in order
    wlog,       \* write_text calls completed by this invocation, in order:
                \* the index in received of the item, and the path
    failedAt,   \* NoFail, or what failed: request number / index of the item
    before,     \* files and dirs when this invocation started
    snapshot    \* files when the previous invocation returned

vars == <<variant, token, dirExists, sinceArg, now, remote, flip, run, pc, exit,
          msg, parsed, since, tok, lst, pageInfo, idx, files, dirs, reqs, resps,
          received, wlog, failedAt, before, snapshot>>

-----------------------------------------------------------------------------
(* Program constants *)

PAGE_SIZE == 100
FORMAT == 2
GRAPH_FIRST == 20
FORMAT_KEY == "_format"

(* Bounds of the model *)

MaxPages == 2       \* pages the remote holds
MaxLen == 3         \* length of the --since strings enumerated
MaxNumber == 2      \* item numbers are 1..MaxNumber
MaxRuns == 2        \* invocations of the program
MaxExtra == 2       \* requests an endless remote is followed for, beyond MaxPages

MaxRequests == MaxPages + MaxExtra

-----------------------------------------------------------------------------
(* Values.  An optional value is <<>> (None) or <<v>>. *)

None == <<>>
Some(v) == <<v>>
Truncated == <<>>       \* text of a file whose write_text failed after open()

Variants == {"list", "graph"}
Tokens == {"absent", "empty", "set"}

DigitChars == {"0", "1", "2", "3", "4", "5", "6", "7", "8", "9"}
Digits == {"0", "1", "2"}
Letters == {"w", "d", "h", "H", "M", "x"}
Alphabet == Digits \cup Letters

Strs(n) == UNION {[1..k -> Alphabet] : k \in 0..n}

Nows == {1065484800}    \* 2026-11-01T00:00, in minutes since datetime.min

-----------------------------------------------------------------------------
(* parse_since *)

\* The strings of the model that datetime.fromisoformat accepts, with the
\* instant (minutes since datetime.min) they denote.
IsoTable ==
    {[str |-> <<"2", "0", "2", "4", "-", "0", "1", "-", "0", "1">>,
      instant |-> 1063994400]}

fromisoformat(s) ==
    IF \E e \in IsoTable : e.str = s
    THEN [ok |-> TRUE, instant |-> (CHOOSE e \in IsoTable : e.str = s).instant]
    ELSE [ok |-> FALSE, instant |-> 0]

DigitVal(c) ==
    CASE c = "0" -> 0 [] c = "1" -> 1 [] c = "2" -> 2 [] c = "3" -> 3
      [] c = "4" -> 4 [] c = "5" -> 5 [] c = "6" -> 6 [] c = "7" -> 7
      [] c = "8" -> 8 [] c = "9" -> 9

RECURSIVE int(_)
int(ds) ==
    IF ds = <<>> THEN 0
    ELSE 10 * int(SubSeq(ds, 1, Len(ds) - 1)) + DigitVal(ds[Len(ds)])

\* The unit letters of the regular expression of parse_since.
UnitLetters(v) ==
    IF v = "list" THEN {"w", "d", "H", "M"} ELSE {"w", "d", "h"}

\* re.fullmatch(r"(\d+)([...])", s)
fullmatch(v, s) ==
    /\ Len(s) >= 2
    /\ \A i \in 1..(Len(s) - 1) : s[i] \in DigitChars
    /\ s[Len(s)] \in UnitLetters(v)

\* Mutant: a week of five days.
UnitMinutes_short_week(u) ==
    CASE u = "w" -> 7200
      [] u = "d" -> 1440
      [] u \in {"h", "H"} -> 60
      [] u = "M" -> 1

\* timedelta(weeks=1), timedelta(days=1), ... in minutes
UnitMinutes(u) ==
    CASE u = "w" -> 10080
      [] u = "d" -> 1440
      [] u \in {"h", "H"} -> 60
      [] u = "M" -> 1

\* Result of parse_since(s) at time t: kind "ok" (returns instant), "exit"
\* (sys.exit naming s) or "raise" (OverflowError: now - delta is before
\* datetime.min).
parse_since(v, s, t) ==
    LET iso == fromisoformat(s) IN
    IF iso.ok THEN [kind |-> "ok", instant |-> iso.instant, msg |-> None]
    ELSE IF ~fullmatch(v, s) THEN [kind |-> "exit", instant |-> 0, msg |-> Some(s)]
    ELSE LET value == int(SubSeq(s, 1, Len(s) - 1))
             delta == value * UnitMinutes(s[Len(s)])
         IN  IF t - delta < 0
             THEN [kind |-> "raise", instant |-> 0, msg |-> None]
             ELSE [kind |-> "ok", instant |-> t - delta, msg |-> None]

-----------------------------------------------------------------------------
(* Records.  A decoded record (dict) is a sequence of <<key, value>> pairs in *)
(* insertion order.  Values are integers: "number" the item number, "title"   *)
(* a title id, "pull_request" 0 for null and 1 for an object.                 *)

Has(dct, key) == \E i \in 1..Len(dct) : dct[i][1] = key

Get(dct, key) == dct[CHOOSE i \in 1..Len(dct) : dct[i][1] = key][2]

\* dct[key] = val
Put(dct, key, val) ==
    IF Has(dct, key)
    THEN [i \in 1..Len(dct) |-> IF dct[i][1] = key THEN <<key, val>> ELSE dct[i]]
    ELSE Append(dct, <<key, val>>)

\* Order of the keys as strings: "_format" < "number" < "pull_request" < "title"
KeyRank(k) ==
    CASE k = "_format" -> 0
      [] k = "number" -> 1
      [] k = "pull_request" -> 2
      [] k = "title" -> 3

\* The pairs of dct in the order of their keys: the pair at index i goes to
\* the position given by the number of pairs that sort before it.
SortKeys(dct) ==
    LET n == Len(dct)
        before_(j, i) ==
            \/ KeyRank(dct[j][1]) < KeyRank(dct[i][1])
            \/ KeyRank(dct[j][1]) = KeyRank(dct[i][1]) /\ j < i
        pos(i) == 1 + Cardinality({j \in 1..n : before_(j, i)})
    IN  [k \in 1..n |-> dct[CHOOSE i \in 1..n : pos(i) = k]]

\* Mutant: sort_keys is not set.
dumps_unsorted(dct) == dct

\* json.dumps(dct, indent=2, sort_keys=True): the text is determined by the
\* sequence of pairs it prints, so the sequence stands for the text.
dumps(dct) == SortKeys(dct)

\* Mutant: a null pull_request field does not count.
is_pull_request_truthy(dct) == Has(dct, "pull_request") /\ Get(dct, "pull_request") # 0

is_pull_request(dct) == Has(dct, "pull_request")

Reverse(s) == [i \in 1..Len(s) |-> s[Len(s) + 1 - i]]

-----------------------------------------------------------------------------
(* The remote.  remote.pages[p] describes page p: n items, and for the graph *)
(* API the pageInfo.  The items of a page are taken from a pool of records.  *)

PoolSize == 12 * MaxNumber

\* Item j of the pool, as sent: number, title, the pull_request field
\* ("absent", or its value) and the order of the keys in the body.
PoolItem(j) ==
    [number |-> (j % MaxNumber) + 1,
     pr     |-> (j \div MaxNumber) % 3,         \* 0 absent, 1 null, 2 object
     title  |-> ((j \div (3 * MaxNumber)) % 2) + 1,
     rev    |-> ((j \div (6 * MaxNumber)) % 2) = 1]

\* response.json() / result["..."]: the record as decoded from the body.
Decode(item, fl) ==
    LET base == <<<<"number", item.number>>, <<"title", item.title>>>>
                \o (IF item.pr = 0 THEN <<>> ELSE <<<<"pull_request", item.pr - 1>>>>)
    IN  IF item.rev # fl THEN Reverse(base) ELSE base

PageDesc(rm, p) ==
    IF p \in 1..Len(rm.pages) THEN rm.pages[p]
    ELSE [n |-> 0, hasNextPage |-> FALSE, endCursor |-> None]

PageItems(rm, p, fl) ==
    [i \in 1..PageDesc(rm, p).n |->
        Decode(PoolItem(((p - 1) * 7 + (i - 1) * rm.stride) % PoolSize), fl)]

ListLens == {0, 1, PAGE_SIZE - 1, PAGE_SIZE}
GraphLens == {0, 1, 2, GRAPH_FIRST}
Strides == {1, 3 * MaxNumber}

ListPages == [n : ListLens, hasNextPage : {FALSE}, endCursor : {None}]

\* Page p of the graph API ends with cursor <<p>>; an empty page has no cursor
\* and no next page.
GraphPagesAt(p) ==
    {[n |-> 0, hasNextPage |-> FALSE, endCursor |-> None]}
    \cup [n : GraphLens \ {0}, hasNextPage : BOOLEAN, endCursor : {Some(p)}]

\* A page that has a page after it: a full page (list), a page that reports
\* a next page (graph).
HasSuccessor(v, pg) == IF v = "list" THEN pg.n = PAGE_SIZE ELSE pg.hasNextPage

\* The remotes of k pages.
RemotesOf(v, k) ==
    {f \in [1..k -> ListPages \cup UNION {GraphPagesAt(q) : q \in 1..k}] :
        /\ \A p \in 1..k :
               f[p] \in (IF v = "list" THEN ListPages ELSE GraphPagesAt(p))
        /\ \A p \in 1..(k - 1) : HasSuccessor(v, f[p])}

Remotes(v) ==
    UNION {{[pages |-> ps, stride |-> st] : ps \in RemotesOf(v, k), st \in Strides}
           : k \in 0..MaxPages}

-----------------------------------------------------------------------------
(* Initial states: the command line, the environment, the remote and the    *)
(* content of out_dir.                                                      *)

ExtraSinceArgs ==
    {<<"2", "0", "0", "0", "0", "0", "w">>, <<"2", "0", "0", "0", "0", "0", "d">>}
    \cup {e.str : e \in IsoTable}

AllSinceArgs == {None} \cup {Some(s) : s \in Strs(MaxLen) \cup ExtraSinceArgs}

ScrapeSinceArgs == {None, Some(<<"1", "d">>)}

\* One page of one item.
SmallRemote(v) ==
    [pages |-> <<[n |-> 1, hasNextPage |-> FALSE,
                  endCursor |-> IF v = "list" THEN None ELSE Some(1)]>>,
     stride |-> 1]

StaleText == <<<<"number", 1>>>>

\* out_dir before the first run: empty, or holding a file of an earlier scrape
InitialDirs ==
    {[files |-> <<>>, dirs |-> {}],
     [files |-> [p \in {<<"issues", 1>>} |-> StaleText], dirs |-> {"issues"}]}

Init ==
    /\ variant \in Variants
    /\ now \in Nows
    /\ \/ /\ token \in Tokens
          /\ dirExists \in BOOLEAN
          /\ sinceArg \in ScrapeSinceArgs \cup {Some(<<>>), Some(<<"x">>)}
          /\ remote = SmallRemote(variant)
          /\ files = <<>> /\ dirs = {}
       \/ /\ token = "set"
          /\ dirExists = TRUE
          /\ sinceArg \in AllSinceArgs
          /\ remote = SmallRemote(variant)
          /\ files = <<>> /\ dirs = {}
       \/ /\ token = "set"
          /\ dirExists = TRUE
          /\ sinceArg \in ScrapeSinceArgs
          /\ remote \in Remotes(variant)
          /\ \E d \in InitialDirs : files = d.files /\ dirs = d.dirs
    /\ flip = FALSE
    /\ run = 1
    /\ pc = "start"
    /\ exit = None
    /\ msg = None
    /\ parsed = None
    /\ since = None
    /\ tok = IF variant = "list" THEN 1 ELSE None
    /\ lst = <<>>
    /\ pageInfo = [hasNextPage |-> FALSE, endCursor |-> None]
    /\ idx = 1
    /\ reqs = <<>>
    /\ resps = <<>>
    /\ received = <<>>
    /\ wlog = <<>>
    /\ failedAt = None
    /\ before = [files |-> files, dirs |-> dirs]
    /\ snapshot = <<>>

-----------------------------------------------------------------------------
(* main(), up to the call of scrap() *)

\* os.getenv("GITHUB_TOKEN", "") == ""
token_missing(t) == t \in {"absent", "empty"}

\* if args.since:
since_given(arg) == arg # None /\ arg[1] # <<>>

\* First page index of count(1) / cursor = None
first_token(v) == IF v = "list" THEN 1 ELSE None

Main ==
    /\ pc = "start"
    /\ tok' = first_token(variant)
    /\ lst' = <<>>
    /\ pageInfo' = [hasNextPage |-> FALSE, endCursor |-> None]
    /\ idx' = 1
    /\ reqs' = <<>>
    /\ resps' = <<>>
    /\ received' = <<>>
    /\ wlog' = <<>>
    /\ failedAt' = None
    /\ before' = [files |-> files, dirs |-> dirs]
    /\ IF token_missing(token) \/ ~dirExists
       THEN \* sys.exit(message) / return 1; the order of the two checks
            \* differs between the variants, their outcome does not
            /\ pc' = "exited" /\ exit' = Some(1)
            /\ msg' = None /\ parsed' = None /\ since' = None
       ELSE IF since_given(sinceArg)
       THEN LET r == parse_since(variant, sinceArg[1], now) IN
            /\ parsed' = Some(r)
            /\ msg' = r.msg
            /\ CASE r.kind = "ok" ->
                      /\ since' = Some(r.instant)
                      /\ pc' = "fetching" /\ exit' = None
                 [] r.kind = "exit" ->
                      /\ since' = None
                      /\ pc' = "exited" /\ exit' = Some(1)
                 [] r.kind = "raise" ->
                      /\ since' = None
                      /\ pc' = "aborted" /\ exit' = Some(1)
       ELSE /\ parsed' = None /\ msg' = None /\ since' = None
            /\ pc' = "fetching" /\ exit' = None
    /\ UNCHANGED <<variant, token, dirExists, sinceArg, now, remote, flip, run,
                   files, dirs, snapshot>>

-----------------------------------------------------------------------------
(* scrap_page() and the loop of scrap() *)

\* What can go wrong with a request: httpx.get raises, response.json() raises,
\* the body is not a JSON array (an error object); client.execute raises.
FailKinds(v) ==
    IF v = "list" THEN {"timeout", "not_json", "not_list"} ELSE {"transport"}

\* The page the remote serves for a continuation token.
ServedPage(v, t) == IF v = "list" THEN t ELSE IF t = None THEN 1 ELSE t[1] + 1

\* Mutant: the loop of scrap has lost its return.
scrap_never_returns(v, r) == FALSE

\* if not scrap_page(info, page): return / if cursor is None: return
\* r is what scrap_page returned: a boolean (list) or a cursor or None (graph).
scrap_returns(v, r) == IF v = "list" THEN ~r ELSE r = None

\* Mutant: a failed request is taken for an empty response.
after_request_lenient(v, kind, n) ==
    IF v = "list" /\ (kind # "ok" \/ n = 0) THEN "return" ELSE "write"

\* What scrap_page does with the outcome of its request, n being the number of
\* items of a good response: the exception propagates, or "if not lst: return
\* False", or the for loop runs.
after_request(v, kind, n) ==
    IF kind # "ok" THEN "raise"
    ELSE IF v = "list" /\ n = 0 THEN "return"
    ELSE "write"

RequestOk ==
    /\ pc = "fetching"
    /\ Len(reqs) < MaxRequests
    /\ LET p == ServedPage(variant, tok)
           d == PageDesc(remote, p)
           items == PageItems(remote, p, flip)
           o == after_request(variant, "ok", Len(items))
       IN  /\ reqs' = Append(reqs, [tok |-> tok, since |-> since])
           /\ resps' = Append(resps, [n |-> Len(items),
                                      hasNextPage |-> d.hasNextPage,
                                      endCursor |-> d.endCursor])
           /\ received' = received \o items
           /\ lst' = items
           /\ pageInfo' = [hasNextPage |-> d.hasNextPage, endCursor |-> d.endCursor]
           /\ idx' = 1
           /\ CASE o = "write" -> pc' = "writing" /\ exit' = None /\ tok' = tok
                [] o = "return" ->
                     IF scrap_returns(variant, FALSE)
                     THEN pc' = "done" /\ exit' = Some(0) /\ tok' = tok
                     ELSE pc' = "fetching" /\ exit' = None /\ tok' = tok + 1
                [] o = "raise" -> pc' = "aborted" /\ exit' = Some(1) /\ tok' = tok
    /\ UNCHANGED <<variant, token, dirExists, sinceArg, now, remote, flip, run,
                   msg, parsed, since, files, dirs, wlog, failedAt, before,
                   snapshot>>

RequestFail ==
    /\ pc = "fetching"
    /\ Len(reqs) < MaxRequests
    /\ \E kind \in FailKinds(variant) :
         LET o == after_request(variant, kind, 0) IN
         /\ reqs' = Append(reqs, [tok |-> tok, since |-> since])
         /\ failedAt' = Some(<<kind, Len(reqs) + 1>>)
         /\ CASE o = "raise" -> pc' = "aborted" /\ exit' = Some(1) /\ tok' = tok
              [] o = "return" ->
                   IF scrap_returns(variant, FALSE)
                   THEN pc' = "done" /\ exit' = Some(0) /\ tok' = tok
                   ELSE pc' = "fetching" /\ exit' = None /\ tok' = tok + 1
              [] o = "write" -> pc' = "writing" /\ exit' = None /\ tok' = tok
    /\ lst' = <<>>
    /\ idx' = 1
    /\ UNCHANGED <<variant, token, dirExists, sinceArg, now, remote, flip, run,
                   msg, parsed, since, pageInfo, files, dirs, resps,
                   received, wlog, before, snapshot>>

\* dct[FORMAT_KEY] = FORMAT (graph variant only)
stamp(v, dct) == IF v = "graph" THEN Put(dct, FORMAT_KEY, FORMAT) ELSE dct

sub_dir(v, dct) ==
    IF v = "list" THEN (IF is_pull_request(dct) THEN "pulls" ELSE "issues")
    ELSE "issues"

item_path(v, dct) == <<sub_dir(v, dct), Get(dct, "number")>>

\* Mutant: an existing file is kept instead of being overwritten.
write_text_keep(fs, path, text) ==
    [p \in DOMAIN fs \cup {path} |-> IF p \in DOMAIN fs THEN fs[p] ELSE text]

\* item_path.write_text(text)
write_text(fs, path, text) ==
    [p \in DOMAIN fs \cup {path} |-> IF p = path THEN text ELSE fs[p]]

WriteItem ==
    /\ pc = "writing"
    /\ idx <= Len(lst)
    /\ LET dct == stamp(variant, lst[idx])
           path == item_path(variant, dct)
           text == dumps(dct)
       IN  /\ dirs' = dirs \cup {sub_dir(variant, dct)}
           /\ files' = write_text(files, path, text)
           /\ wlog' = Append(wlog, [k |-> Len(received) - Len(lst) + idx,
                                     path |-> path])
    /\ idx' = idx + 1
    /\ UNCHANGED <<variant, token, dirExists, sinceArg, now, remote, flip, run, pc,
                   exit, msg, parsed, since, tok, lst, pageInfo, reqs, resps,
                   received, failedAt, before, snapshot>>

\* Mutant: the error is swallowed and the loop goes on with the next item.
on_write_error_skip == "writing"

\* Where the run goes when mkdir or write_text raises: nothing catches it.
on_write_error == "aborted"

\* mkdir fails; or open() fails and leaves the file as it was; or the write
\* fails after open() truncated the file.
WriteFail ==
    /\ pc = "writing"
    /\ idx <= Len(lst)
    /\ failedAt = None
    /\ LET dct == stamp(variant, lst[idx])
           path == item_path(variant, dct)
       IN  \E kind \in {"mkdir", "open", "write"} :
             /\ kind = "mkdir" => sub_dir(variant, dct) \notin dirs
             /\ dirs' = IF kind = "mkdir" THEN dirs
                        ELSE dirs \cup {sub_dir(variant, dct)}
             /\ files' = IF kind = "write" THEN write_text(files, path, Truncated)
                         ELSE files
             /\ failedAt' = Some(<<kind, Len(received) - Len(lst) + idx>>)
    /\ pc' = on_write_error
    /\ exit' = IF on_write_error = "aborted" THEN Some(1) ELSE exit
    /\ idx' = IF on_write_error = "aborted" THEN idx ELSE idx + 1
    /\ UNCHANGED <<variant, token, dirExists, sinceArg, now, remote, flip, run,
                   msg, parsed, since, tok, lst, pageInfo, reqs, resps, received,
                   wlog, before, snapshot>>

\* Mutant: a page one item short of the page size still asks for the next one.
more_pages_short(n) == n >= PAGE_SIZE - 1

\* return len(lst) == PAGE_SIZE
more_pages(n) == n = PAGE_SIZE

\* Mutant: the end cursor is returned whatever hasNextPage says.
next_cursor_always(pi) == pi.endCursor

\* if page_info["hasNextPage"]: return page_info["endCursor"] / return None
next_cursor(pi) == IF pi.hasNextPage THEN pi.endCursor ELSE None

\* End of the for loop: scrap_page returns and scrap decides.
FinishPage ==
    /\ pc = "writing"
    /\ idx = Len(lst) + 1
    /\ LET r == IF variant = "list" THEN more_pages(Len(lst))
                ELSE next_cursor(pageInfo)
       IN  IF scrap_returns(variant, r)
           THEN /\ pc' = "done" /\ exit' = Some(0)
                /\ tok' = tok
           ELSE /\ pc' = "fetching" /\ exit' = None
                /\ tok' = IF variant = "list" THEN tok + 1 ELSE r
    /\ UNCHANGED <<variant, token, dirExists, sinceArg, now, remote, flip, run,
                   msg, parsed, since, lst, pageInfo, idx, files, dirs, reqs,
                   resps, received, wlog, failedAt, before, snapshot>>

\* The program is run again with the same command line, against the same
\* remote data, which may come with the keys of its records in another order.
Rerun ==
    /\ pc = "done"
    /\ run < MaxRuns
    /\ run' = run + 1
    /\ pc' = "start"
    /\ exit' = None
    /\ snapshot' = files
    /\ flip' \in BOOLEAN
    /\ UNCHANGED <<variant, token, dirExists, sinceArg, now, remote, msg, parsed,
                   since, tok, lst, pageInfo, idx, files, dirs, reqs, resps,
                   received, wlog, failedAt, before>>

Step == Main \/ RequestOk \/ RequestFail \/ WriteItem \/ WriteFail \/ FinishPage

Next == Step \/ Rerun

Spec == Init /\ [][Next]_vars

\* Runs with a good configuration and no --since, in an empty out_dir.
LiveInit ==
    /\ Init
    /\ token = "set" /\ dirExists /\ sinceArg = None
    /\ remote.stride = 1
    /\ files = <<>>

\* The interpreter runs the program's next step as long as there is one.
LiveSpec == LiveInit /\ [][Next]_vars /\ WF_vars(Step)

-----------------------------------------------------------------------------
(* Properties.  What the specification expects is written here without the  *)
(* operators that model the code.                                           *)

Last(q) == q[Len(q)]

\* The category and the path the specification gives a received record.
ExpCategory(v, dct) ==
    IF v = "list" /\ (\E i \in 1..Len(dct) : dct[i][1] = "pull_request")
    THEN "pulls" ELSE "issues"

ExpNumber(dct) == dct[CHOOSE i \in 1..Len(dct) : dct[i][1] = "number"][2]

ExpPath(v, dct) == <<ExpCategory(v, dct), ExpNumber(dct)>>

\* The pairs of a record with the given key, as a sequence of zero or one pair.
PairOf(dct, key) ==
    IF \E i \in 1..Len(dct) : dct[i][1] = key
    THEN <<dct[CHOOSE i \in 1..Len(dct) : dct[i][1] = key]>>
    ELSE <<>>

\* The text the specification expects for a received record: its pairs in the
\* order of their keys, with the schema tag in the graph variant.
ExpText(v, dct) ==
    (IF v = "graph" THEN <<<<"_format", 2>>>> ELSE <<>>)
    \o PairOf(dct, "number") \o PairOf(dct, "pull_request") \o PairOf(dct, "title")

\* C1: in the list variant the requests are for pages 1, 2, 3, ... in order,
\* each once; page k+1 is requested after the response to page k if and only
\* if that response held exactly PAGE_SIZE items, and a response of fewer
\* items is the last request of the run.
C1_ListPagination ==
    variant = "list" =>
        /\ \A k \in 1..Len(reqs) : reqs[k].tok = k
        /\ \A k \in 1..Len(resps) : k < Len(reqs) => resps[k].n = PAGE_SIZE
        /\ (pc = "fetching" /\ Len(resps) > 0) => Last(resps).n = PAGE_SIZE
        /\ (pc = "done" /\ Len(resps) > 0) =>
               /\ Last(resps).n < PAGE_SIZE
               /\ Len(reqs) = Len(resps)

\* A first page of exactly PAGE_SIZE items was followed by a second, empty one.
C1_Witness ==
    /\ variant = "list" /\ pc = "done"
    /\ Len(resps) = 2 /\ resps[1].n = PAGE_SIZE /\ resps[2].n = 0

\* A page of PAGE_SIZE - 1 items was the only request of a completed run.
C1_Witness99 ==
    /\ variant = "list" /\ pc = "done"
    /\ Len(reqs) = 1 /\ resps[1].n = PAGE_SIZE - 1

\* C2: in the graph variant the first request carries no cursor; the items
\* of a response are all written before the next request; a further request
\* is issued if and only if the response reported hasNextPage, with that
\* response's endCursor; when hasNextPage is false the loop ends and the
\* endCursor is not used.
C2_GraphPagination ==
    variant = "graph" =>
        /\ Len(reqs) > 0 => reqs[1].tok = None
        /\ \A k \in 2..Len(reqs) :
               /\ resps[k - 1].hasNextPage
               /\ reqs[k].tok = resps[k - 1].endCursor
        /\ Len(reqs) > 0 => Len(wlog) >= Len(received) - Len(lst)
        /\ (pc = "fetching" /\ Len(resps) > 0) =>
               /\ Last(resps).hasNextPage
               /\ tok = Last(resps).endCursor
               /\ Len(wlog) = Len(received)
        /\ (pc = "done" /\ Len(resps) > 0) =>
               /\ ~Last(resps).hasNextPage
               /\ Len(reqs) = Len(resps)
               /\ Len(wlog) = Len(received)

\* A run of two requests ended on a response without next page whose
\* endCursor was present and was not used.
C2_Witness ==
    /\ variant = "graph" /\ pc = "done"
    /\ Len(reqs) = 2 /\ reqs[2].tok = resps[1].endCursor
    /\ ~resps[2].hasNextPage /\ resps[2].endCursor # None
    /\ Len(wlog) > 2

\* The paths written by the run, and the index of the last received record
\* that goes to a path.
WrittenPaths == {wlog[k].path : k \in 1..Len(wlog)}

LastFor(path) ==
    CHOOSE k \in 1..Len(received) :
        /\ ExpPath(variant, received[k]) = path
        /\ \A j \in (k + 1)..Len(received) : ExpPath(variant, received[j]) # path

\* C3: after a run that completes normally the files written during the run
\* are exactly one file per distinct (category, number) among the received
\* items, each holding the record of the last received item with that
\* number; no other file is written; an empty first result writes no file
\* and the run exits 0.
C3_FilesWritten ==
    pc = "done" =>
        /\ exit = Some(0)
        /\ WrittenPaths = {ExpPath(variant, received[k]) : k \in 1..Len(received)}
        /\ DOMAIN files = WrittenPaths \cup DOMAIN before.files
        /\ \A path \in WrittenPaths :
               files[path] = ExpText(variant, received[LastFor(path)])
        /\ \A path \in DOMAIN files \ WrittenPaths : files[path] = before.files[path]
        /\ received = <<>> => files = before.files /\ dirs = before.dirs

\* Two received items of a completed run had the same category and number
\* and different records.
C3_Witness ==
    /\ pc = "done"
    /\ \E j, k \in 1..Len(wlog) :
           /\ j < k /\ wlog[j].path = wlog[k].path
           /\ ExpText(variant, received[wlog[j].k]) # ExpText(variant, received[wlog[k].k])

\* An empty first result: no file written, exit status 0.
C3_WitnessEmpty ==
    /\ pc = "done" /\ Len(reqs) = 1 /\ received = <<>> /\ exit = Some(0)

\* C4: in the list variant every received item whose record has the
\* pull_request field is written under pulls/ and every other item under
\* issues/, whatever the value of the field; in the graph variant every
\* item is written under issues/; nothing is written outside issues/ and
\* pulls/.
C4_CategoryRouting ==
    /\ \A j \in 1..Len(wlog) :
           /\ wlog[j].k = j
           /\ IF variant = "list" /\ (\E i \in 1..Len(received[j]) :
                                          received[j][i][1] = "pull_request")
              THEN wlog[j].path[1] = "pulls"
              ELSE wlog[j].path[1] = "issues"
    /\ pc = "done" => Len(wlog) = Len(received)
    /\ \A path \in DOMAIN files \ DOMAIN before.files : path[1] \in {"issues", "pulls"}
    /\ dirs \subseteq before.dirs \cup {"issues", "pulls"}

\* The list variant wrote under pulls/ an item whose pull_request field is
\* null, and the graph variant wrote under issues/ an item that has the field.
C4_Witness ==
    /\ variant = "list"
    /\ \E j \in 1..Len(wlog) :
           /\ wlog[j].path[1] = "pulls"
           /\ <<"pull_request", 0>> \in
                  {received[wlog[j].k][i] : i \in 1..Len(received[wlog[j].k])}

C4_WitnessGraph ==
    /\ variant = "graph"
    /\ \E j \in 1..Len(wlog) :
           /\ wlog[j].path[1] = "issues"
           /\ \E i \in 1..Len(received[wlog[j].k]) :
                  received[wlog[j].k][i][1] = "pull_request"

\* The grammar of --since, written from the regular expressions.
IsIso(s) == s \in {e.str : e \in IsoTable}

DigitSeq == <<"0", "1", "2", "3", "4", "5", "6", "7", "8", "9">>

RECURSIVE Decimal(_, _)
Decimal(ds, acc) ==
    IF ds = <<>> THEN acc
    ELSE Decimal(Tail(ds), 10 * acc + (CHOOSE i \in 1..10 : DigitSeq[i] = Head(ds)) - 1)

IsRel(units, s) ==
    /\ Len(s) >= 2
    /\ \A i \in 1..(Len(s) - 1) : \E d \in 1..10 : DigitSeq[d] = s[i]
    /\ Last(s) \in units

\* Offset in minutes of a relative string.
Offset(s) ==
    Decimal(SubSeq(s, 1, Len(s) - 1), 0)
    * (CASE Last(s) = "w" -> 7 * 24 * 60
         [] Last(s) = "d" -> 24 * 60
         [] Last(s) \in {"h", "H"} -> 60
         [] Last(s) = "M" -> 1)

\* Unit letters as the claim has them, and as the variants have them.
ClaimedUnits(v) == IF v = "list" THEN {"w", "d", "h", "M"} ELSE {"w", "d", "h"}

ActualUnits(v) == IF v = "list" THEN {"w", "d", "H", "M"} ELSE {"w", "d", "h"}

Malformed(v, arg) ==
    arg # None /\ ~IsIso(arg[1]) /\ ~IsRel(ActualUnits(v), arg[1])

NoWorkDone == reqs = <<>> /\ files = before.files /\ dirs = before.dirs

\* C5: when the token is absent or empty, or out_dir is not an existing
\* directory, or --since is malformed, main() ends the run with a non-zero
\* exit status before any request is issued and before any file or
\* sub-directory is created.
C5_ConfigErrors ==
    (/\ run = 1 /\ pc # "start"
     /\ \/ token \in {"absent", "empty"}
        \/ ~dirExists
        \/ Malformed(variant, sinceArg))
    => /\ pc \in {"exited", "aborted"}
       /\ exit # None /\ exit # Some(0)
       /\ NoWorkDone

RequestFailed == failedAt # None /\ failedAt[1][1] \in FailKinds(variant)

\* C6: when a request fails the run ends at once with a non-zero outcome: no
\* item is written for it, the request is not issued again and no later page
\* or cursor is requested.
C6_RequestFailureFatal ==
    RequestFailed =>
        /\ pc = "aborted"
        /\ exit = Some(1)
        /\ Len(reqs) = failedAt[1][2]
        /\ Len(resps) = Len(reqs) - 1
        /\ Len(wlog) = Len(received)

\* The second request of a run failed after the items of the first response
\* were written.
C6_Witness ==
    /\ RequestFailed /\ failedAt[1][2] = 2 /\ wlog # <<>>

\* C7 as claimed: parse_since takes <N><unit> with unit among w, d, h, M
\* (list) or w, d, h (graph) to now - N * unit, and reports every other
\* string that is not a timestamp as an error naming it, without a request.
C7_ParseSinceAsClaimed ==
    (parsed # None /\ ~IsIso(sinceArg[1])) =>
        IF IsRel(ClaimedUnits(variant), sinceArg[1])
        THEN /\ parsed[1].kind = "ok"
             /\ parsed[1].instant = now - Offset(sinceArg[1])
        ELSE /\ parsed[1].kind = "exit"
             /\ msg = Some(sinceArg[1])
             /\ pc = "exited" /\ reqs = <<>>

\* C7, amended: for every string parse_since is called with that is not a
\* timestamp: if it is <N><unit> with unit among w, d, H, M (list) or
\* w, d, h (graph), the result is now - N * unit when that instant is not
\* before datetime.min, and otherwise the run aborts without a request; every
\* other string is reported as an error naming it, the run exits non-zero and
\* no request is issued.
C7_ParseSince ==
    (parsed # None /\ ~IsIso(sinceArg[1])) =>
        IF IsRel(ActualUnits(variant), sinceArg[1])
        THEN IF now - Offset(sinceArg[1]) >= 0
             THEN /\ parsed[1].kind = "ok"
                  /\ parsed[1].instant = now - Offset(sinceArg[1])
                  /\ since = Some(now - Offset(sinceArg[1]))
                  /\ \A k \in 1..Len(reqs) : reqs[k].since = since
             ELSE /\ parsed[1].kind = "raise"
                  /\ pc = "aborted" /\ exit = Some(1) /\ reqs = <<>>
        ELSE /\ parsed[1].kind = "exit"
             /\ msg = Some(sinceArg[1])
             /\ pc = "exited" /\ exit = Some(1) /\ reqs = <<>>

\* The list variant parsed <N>H and sent the instant with its request.
C7_Witness ==
    /\ variant = "list" /\ parsed # None
    /\ IsRel({"H"}, sinceArg[1]) /\ Offset(sinceArg[1]) > 0
    /\ reqs # <<>> /\ reqs[1].since = Some(now - Offset(sinceArg[1]))

\* The list variant rejected <N>h.
C7_WitnessReject ==
    /\ variant = "list" /\ parsed # None
    /\ IsRel({"h"}, sinceArg[1]) /\ pc = "exited"

\* C8: a second run with the same command line against the same remote data
\* leaves every file as the first run left it and creates or removes none,
\* whatever the order of the keys in the received records.
C8_Idempotence ==
    (pc = "done" /\ run >= 2) => files = snapshot /\ dirs = before.dirs

\* A second run received records with their keys in another order than the
\* first, one of them not in sorted order, and completed.
C8_Witness ==
    /\ pc = "done" /\ run = 2 /\ flip
    /\ \E j \in 1..Len(wlog) :
           received[wlog[j].k] # ExpText("list", received[wlog[j].k])
    /\ \E j, k \in 1..Len(wlog) : j < k /\ wlog[j].path = wlog[k].path

WriteFailed == failedAt # None /\ failedAt[1][1] \in {"mkdir", "open", "write"}

\* The text of the last completed write to a path: that of the record of the
\* last item written there.
LastWritten(path) ==
    ExpText(variant,
            received[wlog[CHOOSE k \in 1..Len(wlog) :
                             /\ wlog[k].path = path
                             /\ \A j \in (k + 1)..Len(wlog) : wlog[j].path # path].k])

\* The run stopped at item i: non-zero exit, no later item written, no
\* further request.
AbortedAt(i) ==
    /\ pc = "aborted" /\ exit = Some(1)
    /\ Len(wlog) = i - 1
    /\ Len(reqs) = Len(resps)
    /\ Len(received) - Len(lst) < i /\ i <= Len(received)

\* C9 as claimed: when writing item i fails the run aborts there, every file
\* written for an earlier item stays with its content, no later item is
\* written and no further request is issued.
C9_WriteFailureAsClaimed ==
    WriteFailed =>
        /\ AbortedAt(failedAt[1][2])
        /\ \A path \in WrittenPaths :
               /\ path \in DOMAIN files
               /\ files[path] = LastWritten(path)

\* C9, amended: as claimed, except that the file of an earlier item with the
\* same category and number as item i is the file item i is written to, and
\* the failed write may leave it truncated.
C9_WriteFailure ==
    WriteFailed =>
        /\ AbortedAt(failedAt[1][2])
        /\ \A path \in WrittenPaths :
               /\ path \in DOMAIN files
               /\ IF path = ExpPath(variant, received[failedAt[1][2]])
                  THEN files[path] \in {LastWritten(path), Truncated}
                  ELSE files[path] = LastWritten(path)

\* The write of an item failed on the second page, after earlier items of
\* both pages were written, one of them to the same file.
C9_Witness ==
    /\ WriteFailed /\ failedAt[1][1] = "write"
    /\ Len(reqs) = 2 /\ Len(wlog) > Len(received) - Len(lst)
    /\ \E k \in 1..Len(wlog) :
           wlog[k].path = ExpPath(variant, received[failedAt[1][2]])
    /\ \E k \in 1..Len(wlog) :
           wlog[k].path # ExpPath(variant, received[failedAt[1][2]])

\* C10: a run that starts fetching reaches DONE with exit status 0 unless a
\* request or a write fails; once DONE, no request is issued and no file is
\* written.
C10_Termination ==
    /\ (pc = "fetching" /\ reqs = <<>>)
           ~> ((pc = "done" /\ exit = Some(0)) \/ failedAt # None)
    /\ [][pc = "done" => (files' = files /\ dirs' = dirs /\ reqs' = reqs
                          /\ wlog' = wlog)]_vars

\* A run of three requests reached DONE.
C10_Witness ==
    /\ pc = "done" /\ exit = Some(0) /\ Len(reqs) >= 3 /\ failedAt = None

====
